---- MODULE Spec2Model ----
(***************************************************************************)
(* Model of the two scripts of ARthroNeRF_view_synthesis:                  *)
(*   NeRF_instant/scripts/run_modify.py  (the testbed driver)              *)
(*   DataCollect/utils/ssim.py           (the SSIM averaging snippet)      *)
(*                                                                         *)
(* The native engine (pyngp.Testbed), the tracker SDK and the keyboard     *)
(* are environment: every value they return is an input drawn from a       *)
(* small set.  Floating-point numbers are modelled as exact rationals      *)
(* <<numerator, denominator>>; times are integers counting half seconds.   *)
(***************************************************************************)
EXTENDS Integers, Sequences, FiniteSets, TLC

VARIABLES
    argv,           \* the command line as given
    args,           \* the parsed command line (argparse namespace)
    pc,             \* position of __main__ in run_modify.py
    calls,          \* engine set-up calls made so far, in order
    n_steps,        \* local n_steps of __main__
    testbed,        \* the engine attributes the driver reads and writes
    frame_calls,    \* number of testbed.frame() calls made
    done_observed,  \* the loop has seen training_step >= n_steps
    calib,          \* constants loaded before the loop (lines 280-291)
    run,            \* loop-carried locals and testbed pose attributes
    runB,           \* the same, for a second run of the loop
    video,          \* state of the video rendering loop
    ssim            \* state of ssim.py

vars == <<argv, args, pc, calls, n_steps, testbed, frame_calls, done_observed,
          calib, run, runB, video, ssim>>

----------------------------------------------------------------------------
(* Exact rational arithmetic standing for Python float arithmetic.         *)

Abs(x) == IF x < 0 THEN -x ELSE x

\* the one element of a singleton set; {f(x) : x \in {e}} computes f from
\* the finished value of e
Only(S) == CHOOSE x \in S : TRUE

RECURSIVE GCD(_, _)
GCD(a, b) == Only({IF y = 0 THEN x ELSE GCD(y, x % y) : x \in {a}, y \in {b}})

RNorm(n, d) ==
    LET g == GCD(Abs(n), Abs(d))
        s == IF d < 0 THEN -1 ELSE 1
    IN  <<(s * n) \div g, (s * d) \div g>>

RInt(k) == <<k, 1>>
RAdd(a, b) == RNorm(a[1] * b[2] + b[1] * a[2], a[2] * b[2])
RNeg(a) == <<-a[1], a[2]>>
RSub(a, b) == RAdd(a, RNeg(b))
RMul(a, b) == RNorm(a[1] * b[1], a[2] * b[2])
RDiv(a, b) == RNorm(a[1] * b[2], a[2] * b[1])

RECURSIVE RSum(_)
RSum(s) ==
    Only({IF x = <<>> THEN RInt(0) ELSE RAdd(Head(x), RSum(Tail(x))) : x \in {s}})

----------------------------------------------------------------------------
(* numpy matrices.  A matrix of floats is a record [n, d]: the tuple of    *)
(* rows of integer numerators n over the common denominator d > 0, so the  *)
(* numpy entry [i, j] is n[i+1][j+1] / d.                                  *)

\* tuples of tuples, entry by entry
Mat4(E(_, _)) ==
    << <<E(1, 1), E(1, 2), E(1, 3), E(1, 4)>>,
       <<E(2, 1), E(2, 2), E(2, 3), E(2, 4)>>,
       <<E(3, 1), E(3, 2), E(3, 3), E(3, 4)>>,
       <<E(4, 1), E(4, 2), E(4, 3), E(4, 4)>> >>

Mat3(E(_, _)) ==
    << <<E(1, 1), E(1, 2), E(1, 3)>>,
       <<E(2, 1), E(2, 2), E(2, 3)>>,
       <<E(3, 1), E(3, 2), E(3, 3)>> >>

\* a matrix of integers
IntMat(N) == [n |-> N, d |-> 1]

\* the entry [i-1, j-1] as a rational
Entry(M, i, j) == RNorm(M.n[i][j], M.d)

\* the greatest common divisor of the numbers of a sequence
RECURSIVE GCDSeq(_)
GCDSeq(s) ==
    Only({IF x = <<>> THEN 0 ELSE GCD(Abs(Head(x)), GCDSeq(Tail(x))) : x \in {s}})

\* the matrix m with numerators and denominator divided by g
DivideBy(m, g) ==
    LET E(i, j) == m.n[i][j] \div g
    IN  [n |-> Mat4(E), d |-> m.d \div g]

\* the same matrix in lowest terms
Reduce(M) ==
    Only({Only({DivideBy(m, g) :
                  g \in {GCD(m.d, GCDSeq(m.n[1] \o m.n[2] \o m.n[3] \o m.n[4]))}}) :
            m \in {M}})

\* numerators of A @ B
Prod4(A, B) ==
    LET E(i, j) == A[i][1] * B[1][j] + A[i][2] * B[2][j]
                   + A[i][3] * B[3][j] + A[i][4] * B[4][j]
    IN  Mat4(E)

\* A @ B for 4x4 matrices
MatMul(A, B) ==
    Only({[n |-> Prod4(a.n, b.n), d |-> a.d * b.d] : a \in {A}, b \in {B}})

\* determinant of the 3x3 matrix left of N by deleting row r and column c
Minor(N, r, c) ==
    LET rows == IF r = 1 THEN <<2, 3, 4>> ELSE IF r = 2 THEN <<1, 3, 4>>
                ELSE IF r = 3 THEN <<1, 2, 4>> ELSE <<1, 2, 3>>
        cols == IF c = 1 THEN <<2, 3, 4>> ELSE IF c = 2 THEN <<1, 3, 4>>
                ELSE IF c = 3 THEN <<1, 2, 4>> ELSE <<1, 2, 3>>
        e(i, j) == N[rows[i]][cols[j]]
    IN  e(1, 1) * (e(2, 2) * e(3, 3) - e(2, 3) * e(3, 2))
        - e(1, 2) * (e(2, 1) * e(3, 3) - e(2, 3) * e(3, 1))
        + e(1, 3) * (e(2, 1) * e(3, 2) - e(2, 2) * e(3, 1))

Sign(i, j) == IF (i + j) % 2 = 0 THEN 1 ELSE -1

Det4(N) ==
    N[1][1] * Minor(N, 1, 1) - N[1][2] * Minor(N, 1, 2)
    + N[1][3] * Minor(N, 1, 3) - N[1][4] * Minor(N, 1, 4)

\* the inverse of N / d is (d * adjugate(N)) / det(N)
AdjugateOver(N, d, det) ==
    LET s == IF det < 0 THEN -1 ELSE 1
        E(i, j) == s * d * Sign(i, j) * Minor(N, j, i)
    IN  Reduce([n |-> Mat4(E), d |-> Abs(det)])

\* np.linalg.inv of a 4x4 matrix
Inv4(M) == Only({AdjugateOver(m.n, m.d, Det4(m.n)) : m \in {M}})

----------------------------------------------------------------------------
(* Helpers of run_modify.py, lines 38-96.                                  *)

\* c2w[0:3, col] *= -1
NegCol(M, col) ==
    LET E(i, j) == IF i <= 3 /\ j = col THEN -M.n[i][j] ELSE M.n[i][j]
    IN  [n |-> Mat4(E), d |-> M.d]

\* c2w[[1,0,2,3], :]
SwapRows(M) == [n |-> <<M.n[2], M.n[1], M.n[3], M.n[4]>>, d |-> M.d]

\* c2w[2, :] *= -1
NegRow(M) ==
    LET E(i, j) == IF i = 3 THEN -M.n[i][j] ELSE M.n[i][j]
    IN  [n |-> Mat4(E), d |-> M.d]

\* flip_matrix(m): invert, negate columns 2 and 1 of the first three rows,
\* exchange rows 0 and 1, negate row 2
flip_matrix(m) ==
    Only({NegRow(s) : s \in {SwapRows(c1) : c1 \in {NegCol(c2, 2) :
            c2 \in {NegCol(inv, 3) : inv \in {Inv4(m)}}}}})

(* np.cos and np.sin of 45 degrees are irrational numbers rounded to       *)
(* floats (0.7071067811865476 and 0.7071067811865475): they are kept as    *)
(* the symbols cos45 and sin45.  A float of the rotation stage (lines      *)
(* 415-456) is either a rational <<n, d>> or a triple <<a, b, c>> of       *)
(* rationals standing for a + b*cos45 + c*sin45.                           *)

\* the rational r among the floats of the rotation stage
Plain(r) == <<r, RInt(0), RInt(0)>>

\* -x
FNeg(x) ==
    IF Len(x) = 3 THEN <<RNeg(x[1]), RNeg(x[2]), RNeg(x[3])>> ELSE RNeg(x)

\* r * t + u for the rational r and the triples t, u
MulAdd(r, t, u) ==
    <<RAdd(RMul(r, t[1]), u[1]), RAdd(RMul(r, t[2]), u[2]),
      RAdd(RMul(r, t[3]), u[3])>>

\* rotation_matrix_to_vector(matrix): old_vec = matrix[:, 2]
rotation_matrix_to_vector(matrix) ==
    <<FNeg(matrix[2][3]), FNeg(matrix[3][3]), FNeg(matrix[1][3])>>

\* np.cos(np.deg2rad(45)), np.sin(np.deg2rad(45))
Cos45 == <<RInt(0), RInt(1), RInt(0)>>
Sin45 == <<RInt(0), RInt(0), RInt(1)>>

\* rotation_matrix_x(45)
rotation_matrix_x45 ==
    << <<Plain(RInt(1)), Plain(RInt(0)), Plain(RInt(0))>>,
       <<Plain(RInt(0)), Cos45, FNeg(Sin45)>>,
       <<Plain(RInt(0)), Sin45, Cos45>> >>

\* matrix[:3, :3], a tuple of rows of rationals
Rot3(M) == LET E(i, j) == Entry(M, i, j) IN Mat3(E)

\* line 420: R @ X for the 3x3 matrix R of rationals and the matrix X of
\* triples
RotateBy(R, X) ==
    LET E(i, j) == MulAdd(R[i][1], X[1][j],
                          MulAdd(R[i][2], X[2][j],
                                 MulAdd(R[i][3], X[3][j], Plain(RInt(0)))))
    IN  Mat3(E)

\* [rotation_matrix[1, 1], rotation_matrix[2, 1], rotation_matrix[0, 1]]
UpVector(R) == <<R[2][2], R[3][2], R[1][2]>>

----------------------------------------------------------------------------
(* The camera-pose transform of one loop iteration, lines 326-353.         *)

\* sum(post_avglen) / len(post_avglen)
AvgPostLen(post_avglen) == RDiv(RSum(post_avglen), RInt(Len(post_avglen)))

\* line 350: transform_matrix[0:3, 3] *= k, for the rational k
ScaleTranslation(M, k) ==
    LET E(i, j) == IF i <= 3 /\ j = 4 THEN k[1] * M.n[i][j] ELSE k[2] * M.n[i][j]
    IN  Reduce([n |-> Mat4(E), d |-> k[2] * M.d])

\* line 330: hand-eye calibration
HandEye(tm, c) == MatMul(c.camera2tool, Inv4(tm))

\* line 334: the world centre becomes the origin
Centre(M, c) == MatMul(MatMul(M, c.world_center), c.tool2camera)

\* lines 330-350: hand-eye calibration, world centring, flip, scaling
PoseTransform(tm, c) ==
    Only({ScaleTranslation(f, RDiv(RInt(4), AvgPostLen(c.post_avglen))) :
            f \in {flip_matrix(w) : w \in {Centre(h, c) : h \in {HandEye(tm, c)}}}})

\* tran_vec = transform_matrix[[0,1,2],-1]
TranVec(M) == <<Entry(M, 1, 4), Entry(M, 2, 4), Entry(M, 3, 4)>>

\* [center[0] + tran_vec[1]/289.13, 0.5 + tran_vec[2]*0.0036754,
\*  0.5 + tran_vec[0]/313.7255]   with center = [0.5, -0.50478, 0]
LookAt(tv) ==
    <<RAdd(<<1, 2>>, RDiv(tv[2], <<28913, 100>>)),
      RAdd(<<1, 2>>, RMul(tv[3], <<18377, 5000000>>)),
      RAdd(<<1, 2>>, RDiv(tv[1], <<627451, 2000>>))>>

\* tran_vec[2]*0.0036754*0.4
PoseScale(tv) == RMul(RMul(tv[3], <<18377, 5000000>>), <<2, 5>>)

----------------------------------------------------------------------------
(* Bounds of the model and constants of the program.                       *)

MaxNSteps == 2          \* --n_steps is drawn from -1..MaxNSteps
MaxAdvance == 2         \* training steps one testbed.frame() call may add
MaxFrames == 3          \* testbed.frame() calls explored in one run
MaxEvalFrames == 19     \* the same, where the keyboard is explored
MaxPoseFrames == 2      \* the same, where two runs are compared
DefaultNSteps == 35000  \* line 266
DebounceTicks == 1      \* 0.5 s, line 376
TenPresses == 10        \* line 395

\* "absent" values: Python None, an attribute not yet assigned
None == <<>>

----------------------------------------------------------------------------
(* One iteration of the training loop, lines 318-458.                      *)
(* st  : the loop-carried locals and the pose attributes of testbed        *)
(* in  : what the environment returns during the iteration                 *)
(*       tracking : [nan, m]  TRACKER.get_frame()'s tracking[0]            *)
(*       timer    : testbed.timer                                          *)
(*       l, space1, space2 : keyboard.is_pressed('l'), (' ') at 375, 376   *)
(*       dt       : time elapsed since the last clock reading              *)
(* a   : args,  c : calib                                                  *)

\* a variant of line 326 that keeps the matrix of an earlier iteration
StaleMatrix(st, tracking) ==
    IF st.transform_matrix = None THEN tracking.m ELSE st.transform_matrix

\* line 326: transform_matrix = tracking[0]
TrackedMatrix(st, tracking) == tracking.m

\* lines 364-368: a change of testbed.timer starts a new recording
TimerChange(st, in) ==
    IF in.timer # st.prev_timer_value
    THEN [st EXCEPT
            !.times_recorded =
                IF st.start_time # None
                THEN Append(@, st.now - st.start_time[1]) ELSE @,
            !.start_time = <<st.now>>,
            !.prev_timer_value = in.timer]
    ELSE st

\* lines 370-373: 'l' resets pressnum and j
ResetKey(st, in) ==
    IF in.l THEN [st EXCEPT !.j = 0, !.pressnum = <<0, 0, 0>>] ELSE st

\* lines 392-402: a registered press of the space bar
RegisterPress(st) ==
    LET cnt  == st.press_count + 1
        fire == cnt % TenPresses = 0
    IN  [st EXCEPT
            !.stream_list = Append(@, st.j),
            !.j = st.j + 1,
            !.press_count = cnt,
            !.ten_press = fire,
            !.times_recorded =
                IF fire /\ st.start_time # None
                THEN Append(@, st.now - st.start_time[1]) ELSE @,
            !.start_time = IF fire THEN None ELSE @,
            !.pressnum = <<st.j + 1, 0, 0>>,
            !.key_held = TRUE,
            !.last_pressed_time = st.now]

\* lines 375-404
SpaceKey(st, in) ==
    IF in.space1 /\ in.space2 /\ st.now - st.last_pressed_time >= DebounceTicks
    THEN IF ~st.key_held
         THEN RegisterPress(st)
         ELSE [st EXCEPT !.key_held = FALSE]
    ELSE st

\* lines 362-404
Evaluation(st, in, a) ==
    IF a.evaluation THEN SpaceKey(ResetKey(TimerChange(st, in), in), in) ELSE st

\* lines 405-406
TaskTime(st) ==
    [st EXCEPT !.tasktime =
        IF st.start_time = None THEN 0 ELSE st.now - st.start_time[1]]

\* lines 409-430: the values of the pose attributes for the rotation part
\* of the transform turned by 45 degrees about x (rotx)
RotatedPose(tv, rotx) ==
    [look_at |-> LookAt(tv),
     view_dir |-> rotation_matrix_to_vector(rotx),
     up_dir |-> UpVector(rotx),
     scale |-> <<41, 40>>]

\* lines 442-457: the values for the "first person view"
FirstPersonPose(tv, rot) ==
    [look_at |-> LookAt(tv),
     view_dir |-> rotation_matrix_to_vector(rot),
     up_dir |-> UpVector(rot),
     scale |-> PoseScale(tv)]

\* lines 353-457: the attribute values for the finished transform t
AttributeValues(t) ==
    Only({[transform_matrix |-> t,
           rotated |-> Only({RotatedPose(tv, rotx) :
                               rotx \in {RotateBy(rot, rotation_matrix_x45)}}),
           first_person |-> FirstPersonPose(tv, rot)] :
            tv \in {TranVec(t)}, rot \in {Rot3(t)}})

\* lines 330-457: everything computed from the matrix tm read at line 326
PoseValues(tm, c) == Only({AttributeValues(t) : t \in {PoseTransform(tm, c)}})

\* the four attributes of testbed are assigned the values v
AssignPose(st, v) ==
    [st EXCEPT !.look_at = v.look_at, !.view_dir = v.view_dir,
               !.up_dir = v.up_dir, !.scale = v.scale]

\* lines 409-458: the pose attributes of testbed; the assignments of lines
\* 442-457 replace those of lines 409-430
SetPose(st, p) == AssignPose(AssignPose(st, p.rotated), p.first_person)

\* lines 325-458: the branch taken when the tracker sees the tool
Tracked(st, in, a, p) ==
    SetPose(TaskTime(Evaluation([st EXCEPT !.transform_matrix = p.transform_matrix],
                                in, a)), p)

TrackedBranch(st, in, a, p) ==
    Tracked([st EXCEPT !.now = st.now + in.dt], in, a, p)

\* lines 322-457: the values computed from the tracker's reading, None
\* when the tracker is not polled or the tool is out of view
Pose(st, tracking, a, c) ==
    IF a.gui /\ a.ndi /\ ~tracking.nan
    THEN PoseValues(TrackedMatrix(st, tracking), c)
    ELSE None

\* lines 318-458, given the values p computed from the tracker's reading
LoopBodyAt(st, in, a, p) ==
    LET s0 == [st EXCEPT
                 !.pressnum = IF st.pressnum_initialized THEN @ ELSE <<0, 0, 0>>,
                 !.pressnum_initialized = TRUE,
                 !.iters = @ + 1,
                 !.ten_press = FALSE,
                 !.tracking = IF a.gui /\ a.ndi THEN in.tracking ELSE @]
    IN  IF a.gui /\ a.ndi /\ ~in.tracking.nan
        THEN TrackedBranch(s0, in, a, p)
        ELSE s0

\* lines 318-458
LoopBody(st, in, a, c) == LoopBodyAt(st, in, a, Pose(st, in.tracking, a, c))

----------------------------------------------------------------------------
(* Inputs: file contents and tracker readings.                             *)

Track1 == IntMat(<< <<0, -1, 0, 3>>, <<1, 0, 0, -2>>, <<0, 0, 1, 5>>, <<0, 0, 0, 1>> >>)
Track2 == IntMat(<< <<1, 0, 0, 1>>, <<0, 0, -1, 4>>, <<0, 1, 0, -3>>, <<0, 0, 0, 1>> >>)

Seen(m) == [nan |-> FALSE, m |-> m]
NotSeen == [nan |-> TRUE, m |-> None]     \* the tool is out of view: NaN entries

\* args.calibration (hand-eye matrix), args.world_center, args.post_info
ToolToCamera == IntMat(<< <<1, 0, 0, 1>>, <<0, 0, -1, 2>>, <<0, 1, 0, 0>>, <<0, 0, 0, 1>> >>)
WorldCenter1 == IntMat(<< <<0, 0, 1, -1>>, <<1, 0, 0, 4>>, <<0, 1, 0, 2>>, <<0, 0, 0, 1>> >>)
WorldCenter2 == IntMat(<< <<1, 0, 0, 0>>, <<0, 1, 0, 0>>, <<0, 0, 1, 0>>, <<0, 0, 0, 1>> >>)
PostAvgLen1 == <<RInt(3), RInt(5)>>
PostAvgLen2 == <<RInt(3), RInt(5), <<1, 2>>>>

\* what the environment returns when nothing is asked of it
NoInput == [tracking |-> NotSeen, timer |-> 0, l |-> FALSE, space1 |-> FALSE,
            space2 |-> FALSE, dt |-> 0]

\* The inputs of one iteration.  The tracker is polled only with --gui and
\* --ndi (line 322); the clock is read only when the tool is seen (line 405);
\* testbed.timer and the keyboard are read only with --evaluation (line 362),
\* and the space bar a second time only when it was down (lines 375-376).
LoopInputs(a, trackings, timers, keys, ticks) ==
    IF ~(a.gui /\ a.ndi) THEN {NoInput}
    ELSE {[NoInput EXCEPT !.tracking = t] : t \in {x \in trackings : x.nan}}
         \cup
         (IF ~a.evaluation
          THEN {[NoInput EXCEPT !.tracking = t, !.dt = d] :
                  t \in {x \in trackings : ~x.nan}, d \in ticks}
          ELSE {in \in [tracking : {x \in trackings : ~x.nan}, timer : timers,
                        l : keys, space1 : keys, space2 : keys, dt : ticks] :
                  in.space2 => in.space1})

----------------------------------------------------------------------------
(* __main__ of run_modify.py.                                              *)

\* lines 293-313 (and the engine's attributes before the loop sets them)
InitRun ==
    [pressnum_initialized |-> FALSE, pressnum |-> None, j |-> 0,
     last_pressed_time |-> 0, key_held |-> FALSE, prev_timer_value |-> 0,
     start_time |-> None, press_count |-> 0, times_recorded |-> <<>>,
     stream_list |-> <<>>, tasktime |-> 0, transform_matrix |-> None,
     look_at |-> None, view_dir |-> None, up_dir |-> None, scale |-> None,
     now |-> DebounceTicks, tracking |-> NotSeen, iters |-> 0,
     ten_press |-> FALSE]

NoCalib == [tool2camera |-> None, camera2tool |-> None, world_center |-> None,
            post_avglen |-> None]

\* line 101: the positional files; each is a scene or a snapshot
Files == {<<>>, <<"scene">>, <<"snapshot">>}

\* lines 98-160: the arguments the driver reads
CommandLines ==
    [files : Files,
     gui : BOOLEAN, vr : BOOLEAN, train : BOOLEAN, ndi : BOOLEAN,
     evaluation : BOOLEAN, load_snapshot : BOOLEAN, test_transforms : BOOLEAN,
     n_steps : -1..MaxNSteps]

\* the state after parse_args(), line 169
InitMain(cmds) ==
    /\ argv \in cmds
    /\ args = argv
    /\ pc = "start"
    /\ calls = <<>>
    /\ n_steps = argv.n_steps
    /\ testbed = [shall_train |-> FALSE, training_step |-> 0]
    /\ frame_calls = 0
    /\ done_observed = FALSE
    /\ calib = NoCalib
    /\ run = InitRun
    /\ runB = InitRun

\* a variant of lines 170-171 that leaves args.gui as given
GuiAsGiven(a) == a.gui

\* lines 170-171: if args.vr: args.gui = True
GuiOn(a) == IF a.vr THEN TRUE ELSE a.gui

\* lines 170-171
VrImpliesGui ==
    /\ pc = "start"
    /\ args' = [args EXCEPT !.gui = GuiOn(args)]
    /\ pc' = "load_files"
    /\ UNCHANGED <<argv, calls, n_steps, testbed, frame_calls, done_observed,
                   calib, run, runB, video, ssim>>

\* is one of the positional files a snapshot
HasSnapshot(files) == \E k \in 1..Len(files) : files[k] = "snapshot"

\* lines 179-183: testbed.load_file(file) for every positional file; a
\* snapshot carries the training step it was saved at
LoadFiles ==
    /\ pc = "load_files"
    /\ calls' = calls \o [k \in 1..Len(args.files) |-> "load_file"]
    /\ IF HasSnapshot(args.files)
       THEN \E step \in 0..MaxNSteps :
              testbed' = [testbed EXCEPT !.training_step = step]
       ELSE UNCHANGED testbed
    /\ pc' = "init_gui"
    /\ UNCHANGED <<argv, args, n_steps, frame_calls, done_observed,
                   calib, run, runB, video, ssim>>

\* lines 194-203
InitGui ==
    /\ pc = "init_gui"
    /\ calls' = IF args.gui
                THEN IF args.vr
                     THEN calls \o <<"init_window", "init_vr">>
                     ELSE Append(calls, "init_window")
                ELSE calls
    /\ pc' = "load_snapshot"
    /\ UNCHANGED <<argv, args, n_steps, testbed, frame_calls, done_observed,
                   calib, run, runB, video, ssim>>

\* lines 206-210; a snapshot carries the training step it was saved at
LoadSnapshot ==
    /\ pc = "load_snapshot"
    /\ IF args.load_snapshot
       THEN /\ calls' = Append(calls, "load_snapshot")
            /\ \E step \in 0..MaxNSteps :
                 testbed' = [testbed EXCEPT !.training_step = step]
       ELSE UNCHANGED <<calls, testbed>>
    /\ pc' = "setup"
    /\ UNCHANGED <<argv, args, n_steps, frame_calls, done_observed,
                   calib, run, runB, video, ssim>>

\* lines 260-266
DefaultSteps(a) ==
    IF a.n_steps < 0 /\ (~a.load_snapshot \/ a.gui) THEN DefaultNSteps ELSE a.n_steps

\* a variant of line 225 that follows --train with or without the GUI
ShallTrainAsGiven(a) == a.train

\* line 225
ShallTrain(a) == IF a.gui THEN a.train ELSE TRUE

\* lines 223-313
Setup(worlds, avglens) ==
    /\ pc = "setup"
    /\ testbed' = [testbed EXCEPT !.shall_train = ShallTrain(args)]
    /\ n_steps' = DefaultSteps(args)
    /\ \E wc \in worlds, pl \in avglens :
         calib' = [tool2camera |-> ToolToCamera, camera2tool |-> Inv4(ToolToCamera),
                   world_center |-> wc, post_avglen |-> pl]
    /\ run' = InitRun
    /\ pc' = "train"
    /\ UNCHANGED <<argv, args, calls, frame_calls, done_observed, runB, video, ssim>>

\* line 315
TrainGate ==
    /\ pc = "train"
    /\ pc' = IF n_steps > 0 THEN "loop" ELSE "after_training"
    /\ UNCHANGED <<argv, args, calls, n_steps, testbed, frame_calls, done_observed,
                   calib, run, runB, video, ssim>>

\* a variant of lines 511-515 that never breaks
ContinueAlways(a) == TRUE

\* lines 511-515: the loop goes on (TRUE) or breaks (FALSE)
ContinueWhenDone(a) == a.gui

\* lines 317-527: one testbed.frame() call and, when it returns True, one
\* pass through the loop body.  frame() returns ret after adding d steps.
LoopIter(rets, advances, inputs, limit) ==
    /\ pc = "loop"
    /\ frame_calls < limit
    /\ \E t \in {x.tracking : x \in inputs} :
       \E tm \in {Pose(run, t, args, calib)} :
       \E ret \in rets, d \in advances, in \in {x \in inputs : x.tracking = t} :
         LET step == testbed.training_step + (IF testbed.shall_train THEN d ELSE 0)
             done == step >= n_steps
         IN  /\ frame_calls' = frame_calls + 1
             /\ IF ret
                THEN /\ run' = LoopBodyAt(run, in, args, tm)
                     /\ done_observed' = (done_observed \/ done)
                     /\ testbed' = [training_step |-> step,
                                    shall_train |->
                                        IF done /\ ContinueWhenDone(args)
                                        THEN FALSE ELSE testbed.shall_train]
                     /\ pc' = IF done /\ ~ContinueWhenDone(args)
                              THEN "after_training" ELSE "loop"
                ELSE /\ testbed' = [testbed EXCEPT !.training_step = step]
                     /\ pc' = "after_training"
                     /\ UNCHANGED <<run, done_observed>>
    /\ UNCHANGED <<argv, args, calls, n_steps, calib, runB, video, ssim>>

\* lines 529-559: the evaluation list is written; evaluating test transforms
\* stops training
AfterTraining ==
    /\ pc = "after_training"
    /\ testbed' = [testbed EXCEPT !.shall_train =
                       IF args.test_transforms THEN FALSE ELSE @]
    /\ pc' = "done"
    /\ UNCHANGED <<argv, args, calls, n_steps, frame_calls, done_observed,
                   calib, run, runB, video, ssim>>

----------------------------------------------------------------------------
(* The video rendering of run_modify.py, lines 633-664.  written is the    *)
(* set of frames passed to write_image, disk the set of frames whose file  *)
(* exists; in_tmp says that the frame files are written below tmp/, which  *)
(* is the case without a "%" pattern in --video_output (line 659).         *)

MaxSeconds == 2         \* --video_n_seconds is drawn from 0..MaxSeconds
MaxFps == 3             \* --video_fps is drawn from 1..MaxFps
MaxRange == 4           \* --video_render_range bounds are drawn from -1..MaxRange

NoVideo == [pc |-> "idle", n_frames |-> 0, start_frame |-> -1, end_frame |-> -1,
            save_frames |-> FALSE, in_tmp |-> TRUE, i |-> 0, small |-> {},
            full |-> {}, written |-> {}, disk |-> {}, ffmpeg |-> FALSE]

\* lines 633-640: tmp/ is created empty
InitVideo ==
    \E secs \in 0..MaxSeconds, fps \in 1..MaxFps,
       s \in -1..MaxRange, e \in -1..MaxRange,
       pattern \in BOOLEAN, below \in BOOLEAN :
        /\ ~pattern => below
        /\ video = [NoVideo EXCEPT !.pc = "loop", !.n_frames = secs * fps,
                                   !.start_frame = s, !.end_frame = e,
                                   !.save_frames = pattern, !.in_tmp = below]

\* line 642: list(range(min(n_frames, n_frames+1)))
FrameCount(n) ==
    LET m == IF n < n + 1 THEN n ELSE n + 1 IN IF m < 0 THEN 0 ELSE m

\* line 645: the frame is rendered at 32x32 and dropped
BeforeStart(v, i) == v.start_frame >= 0 /\ i < v.start_frame

\* a variant of line 652 that ignores END_FRAME
NeverAfterEnd(v, i) == FALSE

\* line 652: the frame is skipped
AfterEnd(v, i) == v.end_frame >= 0 /\ i > v.end_frame

\* lines 643-659: the treatment of frame v.i
RenderFrame(v) ==
    IF BeforeStart(v, v.i)
    THEN [v EXCEPT !.small = @ \cup {v.i}, !.i = @ + 1]
    ELSE IF AfterEnd(v, v.i)
         THEN [v EXCEPT !.i = @ + 1]
         ELSE [v EXCEPT !.full = @ \cup {v.i}, !.written = @ \cup {v.i},
                        !.disk = @ \cup {v.i}, !.i = @ + 1]

VideoFrame ==
    /\ video.pc = "loop"
    /\ video.i < FrameCount(video.n_frames)
    /\ video' = RenderFrame(video)
    /\ UNCHANGED <<argv, args, pc, calls, n_steps, testbed, frame_calls,
                   done_observed, calib, run, runB, ssim>>

\* lines 661-664: without a pattern ffmpeg encodes the frames of tmp/;
\* tmp/ is removed with everything in it
AfterFrames(v) ==
    [v EXCEPT !.ffmpeg = ~v.save_frames,
              !.disk = IF v.in_tmp THEN {} ELSE @,
              !.pc = "done"]

\* the loop is exhausted
VideoEnd ==
    /\ video.pc = "loop"
    /\ video.i >= FrameCount(video.n_frames)
    /\ video' = AfterFrames(video)
    /\ UNCHANGED <<argv, args, pc, calls, n_steps, testbed, frame_calls,
                   done_observed, calib, run, runB, ssim>>

----------------------------------------------------------------------------
(* ssim.py.  An SSIM score is one of the levels 0..MaxScore; pair[f] is    *)
(* the score of test_output/f against images/f.                            *)

MaxScore == 2

FileNames == {"564.png", "565.png", "566.png"}

NoSsim == [pc |-> "idle", images |-> <<>>, pair |-> <<>>, score |-> 0,
           k |-> 0, total |-> <<>>, printed |-> None]

\* os.listdir: the names of a directory, each once, in any order
Listings(names) ==
    {s \in UNION {[1..n -> names] : n \in 0..Cardinality(names)} :
        \A a, b \in 1..Len(s) : a # b => s[a] # s[b]}

\* lines 23-41: both 564.png files are read, so test_output holds 564.png
InitSsim ==
    \E ls \in Listings(FileNames), ps \in [FileNames -> 0..MaxScore] :
        /\ \E a \in 1..Len(ls) : ls[a] = "564.png"
        /\ ssim = [NoSsim EXCEPT !.pc = "loop", !.images = ls, !.pair = ps,
                                 !.score = ps["564.png"]]

\* line 48: ssim(grayA, grayB, full=True), the images loaded at lines 23-30
LoopScore(st, image) == st.pair["564.png"]

\* lines 43-50
SsimIter(st) ==
    LET image == st.images[st.k + 1]
        sc    == LoopScore(st, image)
    IN  [st EXCEPT !.score = sc, !.total = Append(@, sc), !.k = @ + 1]

SsimStep ==
    /\ ssim.pc = "loop"
    /\ ssim.k < Len(ssim.images)
    /\ ssim' = SsimIter(ssim)
    /\ UNCHANGED <<argv, args, pc, calls, n_steps, testbed, frame_calls,
                   done_observed, calib, run, runB, video>>

RECURSIVE SumSeq(_)
SumSeq(s) ==
    Only({IF x = <<>> THEN 0 ELSE Head(x) + SumSeq(Tail(x)) : x \in {s}})

\* line 51: print(sum(total)/len(total))
SsimPrint ==
    /\ ssim.pc = "loop"
    /\ ssim.k = Len(ssim.images)
    /\ ssim' = [ssim EXCEPT !.pc = "done",
                   !.printed = RDiv(RInt(SumSeq(ssim.total)), RInt(Len(ssim.total)))]
    /\ UNCHANGED <<argv, args, pc, calls, n_steps, testbed, frame_calls,
                   done_observed, calib, run, runB, video>>

----------------------------------------------------------------------------
(* Specifications.                                                         *)

Trackings == {NotSeen, Seen(Track1), Seen(Track2)}

\* the driver, from the command line to the end of training
Init ==
    /\ InitMain(CommandLines)
    /\ video = NoVideo
    /\ ssim = NoSsim

Next ==
    \/ VrImpliesGui
    \/ LoadFiles
    \/ InitGui
    \/ LoadSnapshot
    \/ Setup({WorldCenter1}, {PostAvgLen1})
    \/ TrainGate
    \/ LoopIter(BOOLEAN, 0..MaxAdvance,
                LoopInputs(args, {NotSeen, Seen(Track1)}, {0}, {FALSE}, {1}),
                MaxFrames)
    \/ AfterTraining

Spec == Init /\ [][Next]_vars

\* the driver without the GUI, where --n_steps is given and every frame()
\* call that trains adds at least one step; the interpreter always runs the
\* next statement
InitProgress ==
    /\ InitMain({a \in CommandLines : a.n_steps >= 0 /\ ~a.gui /\ ~a.vr})
    /\ video = NoVideo
    /\ ssim = NoSsim

NextProgress ==
    \/ VrImpliesGui
    \/ LoadFiles
    \/ InitGui
    \/ LoadSnapshot
    \/ Setup({WorldCenter1}, {PostAvgLen1})
    \/ TrainGate
    \/ LoopIter(BOOLEAN, 1..MaxAdvance, {NoInput}, MaxFrames)
    \/ AfterTraining

SpecProgress == InitProgress /\ [][NextProgress]_vars /\ WF_vars(NextProgress)

\* the driver with --gui --ndi --evaluation, the keyboard explored
InitEval ==
    /\ InitMain({a \in CommandLines :
                    /\ a.gui /\ a.ndi /\ a.evaluation /\ ~a.vr /\ ~a.train
                    /\ a.files = <<>>
                    /\ ~a.load_snapshot /\ ~a.test_transforms /\ a.n_steps < 0})
    /\ video = NoVideo
    /\ ssim = NoSsim

NextEval ==
    \/ VrImpliesGui
    \/ LoadFiles
    \/ InitGui
    \/ LoadSnapshot
    \/ Setup({WorldCenter1}, {PostAvgLen1})
    \/ TrainGate
    \/ LoopIter({TRUE}, {0},
                LoopInputs(args, {Seen(Track1)}, {1}, BOOLEAN, {1}),
                MaxEvalFrames)

SpecEval == InitEval /\ [][NextEval]_vars

\* two runs of the loop with the same constants: run goes through up to
\* MaxPoseFrames iterations, runB is a run in its first iteration
InitPose ==
    /\ InitMain({a \in CommandLines :
                    /\ a.gui /\ a.ndi /\ ~a.vr /\ ~a.train
                    /\ a.files = <<>>
                    /\ ~a.load_snapshot /\ ~a.test_transforms /\ a.n_steps < 0})
    /\ video = NoVideo
    /\ ssim = NoSsim

PoseInputs == LoopInputs(args, Trackings, {1}, BOOLEAN, {0, 1})

LoopIterB(inputs) ==
    /\ pc = "loop"
    /\ runB.iters = 0
    /\ \E t \in {x.tracking : x \in inputs} :
       \E tm \in {Pose(runB, t, args, calib)} :
       \E in \in {x \in inputs : x.tracking = t} :
         runB' = LoopBodyAt(runB, in, args, tm)
    /\ UNCHANGED <<argv, args, pc, calls, n_steps, testbed, frame_calls,
                   done_observed, calib, run, video, ssim>>

NextPose ==
    \/ VrImpliesGui
    \/ LoadFiles
    \/ InitGui
    \/ LoadSnapshot
    \/ Setup({WorldCenter1, WorldCenter2}, {PostAvgLen1, PostAvgLen2})
    \/ TrainGate
    \/ LoopIter({TRUE}, {0}, PoseInputs, MaxPoseFrames)
    \/ LoopIterB(PoseInputs)

SpecPose == InitPose /\ [][NextPose]_vars

\* the training driver is not running
IdleMain ==
    /\ argv = [files |-> <<>>, gui |-> FALSE, vr |-> FALSE, train |-> FALSE, ndi |-> FALSE,
               evaluation |-> FALSE, load_snapshot |-> FALSE,
               test_transforms |-> FALSE, n_steps |-> -1]
    /\ args = argv
    /\ pc = "idle"
    /\ calls = <<>>
    /\ n_steps = -1
    /\ testbed = [shall_train |-> FALSE, training_step |-> 0]
    /\ frame_calls = 0
    /\ done_observed = FALSE
    /\ calib = NoCalib
    /\ run = InitRun
    /\ runB = InitRun

\* the video rendering loop
InitVideoLoop ==
    /\ IdleMain
    /\ InitVideo
    /\ ssim = NoSsim

NextVideo ==
    \/ VideoFrame
    \/ VideoEnd

SpecVideo == InitVideoLoop /\ [][NextVideo]_vars

\* ssim.py
InitSsimLoop ==
    /\ IdleMain
    /\ InitSsim
    /\ video = NoVideo

NextSsim ==
    \/ SsimStep
    \/ SsimPrint

SpecSsim == InitSsimLoop /\ [][NextSsim]_vars

----------------------------------------------------------------------------
(* Properties.                                                             *)

\* C1, as stated: in every run, with the GUI or without, once the loop has
\* observed training_step >= n_steps, testbed.frame() is not called again.
C1_QuitsAlways == [][done_observed => frame_calls' = frame_calls]_vars

\* C1, amended: without the GUI, testbed.frame() is not called again once
\* the loop has observed training_step >= n_steps; with the GUI the
\* observation clears testbed.shall_train, which stays cleared, and the loop
\* goes on calling frame().
C1_QuitsWithoutGui ==
    /\ [][(done_observed /\ ~args.gui) => frame_calls' = frame_calls]_vars
    /\ [](done_observed /\ args.gui => ~testbed.shall_train)

\* a run without the GUI has left the loop by the break of line 515
C1_BrokeOut ==
    /\ ~args.gui
    /\ done_observed
    /\ pc = "after_training"
    /\ frame_calls >= 1
    /\ testbed.training_step >= n_steps

\* C2, as stated: in a run without --n_steps and without the GUI that
\* loads a snapshot, by --load_snapshot or as a positional file, n_steps
\* stays negative, the loop is skipped and frame() is never called; in
\* every other run without --n_steps, n_steps is 35000 from line 266 on and
\* the loop is entered, so frame() is called at least once.
C2_NoTrainingAfterSnapshot ==
    LET notGiven == argv.n_steps < 0
        loaded   == argv.load_snapshot \/ HasSnapshot(argv.files)
        skipped  == loaded /\ ~argv.gui /\ ~argv.vr
    IN  /\ (notGiven /\ skipped) =>
              (n_steps < 0 /\ frame_calls = 0 /\ pc # "loop")
        /\ (notGiven /\ ~skipped /\ pc \in {"train", "loop", "after_training", "done"}) =>
              n_steps = DefaultNSteps
        /\ (notGiven /\ ~skipped /\ pc \in {"after_training", "done"}) =>
              frame_calls >= 1

\* a run without --n_steps and without the GUI that loaded a snapshot given
\* as a positional file and then trained
C2_TrainedAfterSnapshotFile ==
    /\ argv.n_steps < 0
    /\ HasSnapshot(argv.files)
    /\ ~argv.load_snapshot
    /\ ~args.gui
    /\ \E k \in 1..Len(calls) : calls[k] = "load_file"
    /\ n_steps = DefaultNSteps
    /\ testbed.shall_train
    /\ frame_calls >= 1

\* C3, as stated: the value printed is the mean, over the names f of
\* test_output, of the score of f's own pair.
C3_MeanOfOwnPairs ==
    ssim.pc = "done" =>
        ssim.printed =
            RDiv(RInt(SumSeq([k \in 1..Len(ssim.images) |-> ssim.pair[ssim.images[k]]])),
                 RInt(Len(ssim.images)))

\* C4, as stated in its last part: a frame with i > END (END not negative)
\* is not rendered at all.
C4_NothingAfterEnd ==
    \A i \in video.small \cup video.full :
        ~(video.end_frame >= 0 /\ i > video.end_frame)

\* C4, amended: when the video block ends, the frames passed to
\* write_image are exactly those i in 0..n_frames-1 with (START < 0 or
\* i >= START) and (END < 0 or i <= END), and they are the frames rendered
\* at full size; their files are still there only if they were written
\* outside tmp/; the frames rendered at 32x32 are exactly those with
\* 0 <= i < START, and none of them is written; a frame with i > END and
\* not below a non-negative START is not rendered at all.
C4_RenderRange ==
    LET n == video.n_frames
        s == video.start_frame
        e == video.end_frame
    IN  /\ video.small \cap video.written = {}
        /\ video.pc = "done" =>
             /\ video.written =
                  {i \in 0..(n - 1) : (s < 0 \/ i >= s) /\ (e < 0 \/ i <= e)}
             /\ video.full = video.written
             /\ video.disk = IF video.in_tmp THEN {} ELSE video.written
             /\ video.small = {i \in 0..(n - 1) : s >= 0 /\ i < s}
             /\ \A i \in 0..(n - 1) :
                  (e >= 0 /\ i > e /\ ~(s >= 0 /\ i < s)) =>
                      i \notin (video.small \cup video.full)

\* a finished video whose range drops frames at both ends
C4_BothEndsCut ==
    /\ video.pc = "done"
    /\ video.start_frame >= 1
    /\ video.end_frame >= video.start_frame
    /\ video.end_frame < video.n_frames - 1
    /\ video.small # {}
    /\ video.written # {}

\* C5: two runs with the same command line and the same constants, whose
\* latest iterations read the same valid tracking matrix, hold the same
\* look_at, view_dir, up_dir and scale, whatever came before in either run.
C5_Stateless ==
    (/\ run.iters >= 1
     /\ runB.iters >= 1
     /\ ~run.tracking.nan
     /\ run.tracking = runB.tracking) =>
        /\ run.look_at = runB.look_at
        /\ run.view_dir = runB.view_dir
        /\ run.up_dir = runB.up_dir
        /\ run.scale = runB.scale

\* one run is in its second iteration, after a press of the space bar and
\* with another clock; the other is in its first; both read the same matrix
C5_DifferentPast ==
    /\ run.iters = 2
    /\ runB.iters = 1
    /\ ~run.tracking.nan
    /\ run.tracking = runB.tracking
    /\ run.press_count > runB.press_count
    /\ run.now # runB.now
    /\ run.look_at # None

\* C6: with --vr init_window is called even without --gui; init_vr is
\* called only after init_window; without --vr init_vr is never called.
C6_VrImpliesGui ==
    /\ (argv.vr /\ pc \notin {"start", "load_files", "init_gui"}) =>
          \E k \in 1..Len(calls) : calls[k] = "init_window"
    /\ \A k \in 1..Len(calls) :
          calls[k] = "init_vr" =>
              \E m \in 1..(k - 1) : calls[m] = "init_window"
    /\ ~argv.vr => \A k \in 1..Len(calls) : calls[k] # "init_vr"

\* --vr without --gui: the window and VR are both initialised
C6_VrAlone ==
    /\ argv.vr
    /\ ~argv.gui
    /\ \E k \in 1..Len(calls) : calls[k] = "init_vr"

\* C7, as stated in its middle part: in a run without the GUI and with
\* n_steps > 0, once the loop has started with testbed.shall_train True the
\* script never clears it.
C7_NeverCleared ==
    [][(/\ ~args.gui
        /\ n_steps > 0
        /\ pc \in {"loop", "after_training"}
        /\ testbed.shall_train) => testbed'.shall_train]_vars

\* C7, amended: in a run without the GUI, testbed.shall_train is True
\* whenever the loop is running, and, every frame() call that trains
\* advancing training_step by at least one, the loop is left.
C7_Terminates ==
    /\ []((~args.gui /\ pc = "loop") => testbed.shall_train)
    /\ (~args.gui /\ pc = "loop") ~> (pc # "loop")

\* a run without the GUI has trained through two iterations and broken out
C7_TrainedAndLeft ==
    /\ ~args.gui
    /\ pc = "after_training"
    /\ frame_calls = 2
    /\ done_observed
    /\ testbed.shall_train

\* C8, as stated: whenever the ten-press trigger fires, testbed.pressnum[0]
\* is a multiple of 10.
C8_TriggerAtMultipleOfTen ==
    run.ten_press => run.pressnum[1] % TenPresses = 0

====
